---- MODULE Spec2Model ----
(***************************************************************************)
(* Model of algobot's BotThread (src/algobot/threads/botThread.py): the    *)
(* worker's run() = setup_bot, started, trading_loop, with the GUI object  *)
(* it shares with its environment, the trading engine, the Telegram bot    *)
(* and the wall clock as far as the worker reads and writes them.          *)
(***************************************************************************)
EXTENDS Integers, Sequences, FiniteSets, TLC

\* ------------------------------------------------------------------ bounds
MaxIter == 2          \* loop iterations explored per run
MaxPrice == 3         \* prices the data feed returns are 1..MaxPrice
MaxMeasurement == 5   \* schedulingTimeUnit spin box values are 0..MaxMeasurement
MaxStall == 2         \* a blocking data refresh lasts up to MaxStall stall units
MaxSendDelay == 1     \* seconds a send_statistics_telegram call may take
StartTime == 1000     \* clock value when the worker is dispatched

\* ------------------------------------------------------- program constants
LIVE == "LIVE"
SIMULATION == "SIMULATION"
BEARISH == "BEARISH"
BULLISH == "BULLISH"
None == -1            \* Python None for the optional numeric fields
NoTrend == "None"     \* Python None as a trend (the key None of `trends`)
NoData == "NoData"    \* gui.lowerIntervalData before any Data(...) is stored

sortedIntervals ==
  <<"1m", "3m", "5m", "15m", "30m", "1h", "2h", "12h", "4h", "6h", "8h", "1d", "3d">>

Workers == {"w1", "w2"}
Modes == {LIVE, SIMULATION}
Callers == {LIVE, SIMULATION, "OTHER"}
Trends == {BULLISH, BEARISH, NoTrend}
Prices == 1..MaxPrice
Units == {"Seconds", "Minutes", "Hours", "Days", "Weeks"}
\* lengths of a blocking data refresh: none, one second, and one second past
\* k five-minute periods
Stalls == {0, 1} \cup {300 * k + 1 : k \in 1..MaxStall}

VARIABLES
  environment,        \* the values the data feed, the engine and the stalls
                      \* take in this run (read only)
  configuration,      \* gui.configuration and configDict widgets (read only)
  gui,                \* the shared GUI object's fields the worker touches
  now,                \* the wall clock datetime.now() reads, in seconds
  caller,             \* self.caller of each worker
  pc,                 \* each worker's position in run()
  nextScheduledEvent, \* self.nextScheduledEvent
  scheduleSeconds,    \* self.scheduleSeconds
  selfTrader,         \* self.trader: the mode whose engine it refers to
  lowerTrend,         \* trading_loop's local lowerTrend
  runningLoop,        \* trading_loop's local runningLoop
  iteration,          \* number of loop iterations begun
  events,             \* started/updated/finished/error signals emitted
  activity,           \* activity signals emitted: count and last message
  telegram,           \* calls made on gui.telegramBot by each worker
  errorAt,            \* where the traceback of the caught exception points
  checkTime,          \* clock value the last handle_scheduler call compared
  stopAt,             \* where each worker was when its running flag was cleared
  observed            \* the last lower trend get_trend returned to each worker

vars == <<environment, configuration, gui, now, caller, pc, nextScheduledEvent,
          scheduleSeconds, selfTrader, lowerTrend, runningLoop, iteration,
          events, activity, telegram, errorAt, checkTime, stopAt, observed>>

\* ------------------------------------------------------------- the engine
\* A freshly constructed SimulationTrader / RealTrader
NewTrader ==
  [built |-> TRUE, currentPrice |-> None, longTrailingPrice |-> None,
   shortTrailingPrice |-> None, trend |-> NoTrend]

NoTrader ==
  [built |-> FALSE, currentPrice |-> None, longTrailingPrice |-> None,
   shortTrailingPrice |-> None, trend |-> NoTrend]

get_trader(g, c) == IF c = LIVE THEN g.trader ELSE g.simulationTrader

set_trader(g, c, t) ==
  IF c = LIVE THEN [g EXCEPT !.trader = t] ELSE [g EXCEPT !.simulationTrader = t]

get_lower_interval_data(g, c) ==
  IF c = LIVE THEN g.lowerIntervalData ELSE g.simulationLowerIntervalData

running_flag(g, c) == IF c = LIVE THEN g.runningLive ELSE g.simulationRunningLive

\* ------------------------------------------------------------ the signals
Event(kind, w, msg) == [kind |-> kind, caller |-> caller[w], msg |-> msg]

Kinds(evs) == [i \in 1..Len(evs) |-> evs[i].kind]

Count(evs, kind) == Cardinality({i \in 1..Len(evs) : evs[i].kind = kind})

\* self.signals.activity.emit(caller, msg)
EmitActivity(a, msg) == [count |-> a.count + 1, last |-> msg]

SetupSteps ==
  {"create_trader", "initialize_lower_interval_trading", "set_parameters",
   "handle_telegram_bot", "initialize_scheduler", "set_running"}

LoopSteps ==
  {"update_data", "handle_logging", "handle_trailing_prices", "handle_trading",
   "handle_scheduler", "handle_lower_interval_cross", "get_statistics"}

\* the loop body with the decision step before the trailing-price update
LoopOrderTradingFirst ==
  <<"update_data", "handle_logging", "handle_trading", "handle_trailing_prices",
    "handle_scheduler", "handle_lower_interval_cross", "get_statistics">>

\* trading_loop: the statements of the while body, in program order
LoopOrder ==
  <<"update_data", "handle_logging", "handle_trailing_prices", "handle_trading",
    "handle_scheduler", "handle_lower_interval_cross", "get_statistics">>

\* the statement after step in the while body; after the last one, the test
After(step) ==
  LET i == CHOOSE j \in 1..Len(LoopOrder) : LoopOrder[j] = step
  IN IF i = Len(LoopOrder) THEN "while" ELSE LoopOrder[i + 1]

\* an except clause around setup_bot only: the run goes on to started
RaiseSetupOnly(w, msg) ==
  /\ events' = [events EXCEPT ![w] = Append(@, Event("error", w, msg))]
  /\ errorAt' = [errorAt EXCEPT ![w] = pc[w]]
  /\ pc' = [pc EXCEPT ![w] = IF pc[w] \in SetupSteps THEN "started" ELSE "done"]

\* an except clause inside the loop body: the loop goes on to the next test
RaiseInLoop(w, msg) ==
  /\ events' = [events EXCEPT ![w] = Append(@, Event("error", w, msg))]
  /\ errorAt' = [errorAt EXCEPT ![w] = pc[w]]
  /\ pc' = [pc EXCEPT ![w] = IF pc[w] \in LoopSteps THEN "while" ELSE "done"]

\* run()'s except clause: the exception raised at pc[w] ends the run with one
\* error signal carrying str(e)
Raise(w, msg) ==
  /\ events' = [events EXCEPT ![w] = Append(@, Event("error", w, msg))]
  /\ errorAt' = [errorAt EXCEPT ![w] = pc[w]]
  /\ pc' = [pc EXCEPT ![w] = "done"]

Goto(w, label) ==
  /\ pc' = [pc EXCEPT ![w] = label]
  /\ UNCHANGED <<events, errorAt>>

\* a run that emits finished when the loop ends
ReturnFinished(w) ==
  /\ pc' = [pc EXCEPT ![w] = "done"]
  /\ events' = [events EXCEPT ![w] = Append(@, Event("finished", w, ""))]
  /\ UNCHANGED errorAt

\* trading_loop returns and run() returns with it: nothing is emitted
Return(w) == Goto(w, "done")

\* ------------------------------------------------------------------- Init
\* The widgets as a user who wants everything would set them
BaseConfiguration ==
  [binanceApiSecret |-> "secret", binanceApiKey |-> "abc", interval |-> "12h",
   lowerIntervalCheck |-> TRUE, enableTelegramTrading |-> TRUE,
   schedulingStatisticsCheckBox |-> TRUE,
   schedulingIntervalComboBox |-> "Minutes", schedulingTimeUnit |-> 5,
   enableTelegramNotification |-> TRUE]

InitGui(bot) ==
  [trader |-> NoTrader, simulationTrader |-> NoTrader,
   lowerIntervalData |-> NoData, simulationLowerIntervalData |-> NoData,
   telegramBot |-> bot, runningLive |-> FALSE, simulationRunningLive |-> FALSE,
   advancedLogging |-> TRUE]

\* BotThread.__init__ for the dispatched worker w1; w2 is not dispatched
InitWorkers(c) ==
  /\ caller = [w \in Workers |-> IF w = "w1" THEN c ELSE SIMULATION]
  /\ pc = [w \in Workers |-> IF w = "w1" THEN "create_trader" ELSE "idle"]
  /\ nextScheduledEvent = [w \in Workers |-> None]
  /\ scheduleSeconds = [w \in Workers |-> None]
  /\ selfTrader = [w \in Workers |-> "None"]
  /\ lowerTrend = [w \in Workers |-> NoTrend]
  /\ runningLoop = [w \in Workers |-> FALSE]
  /\ iteration = [w \in Workers |-> 0]
  /\ events = [w \in Workers |-> <<>>]
  /\ activity = [w \in Workers |-> [count |-> 0, last |-> "none"]]
  /\ telegram = [w \in Workers |-> [messages |-> 0, statistics |-> 0]]
  /\ errorAt = [w \in Workers |-> "none"]
  /\ checkTime = [w \in Workers |-> None]
  /\ observed = [w \in Workers |-> NoTrend]
  /\ stopAt = [w \in Workers |-> [pc |-> "none", iteration |-> 0]]
  /\ now = StartTime

\* Runs that vary the caller, the credentials and the feature toggles, over a
\* flat market where every refresh stalls long enough to make the scheduler due
ToggleConfigurations ==
  {[BaseConfiguration EXCEPT
      !.lowerIntervalCheck = lower, !.enableTelegramTrading = trading,
      !.schedulingStatisticsCheckBox = sched,
      !.schedulingIntervalComboBox = unit, !.enableTelegramNotification = notif] :
     lower \in BOOLEAN, trading \in BOOLEAN, sched \in BOOLEAN,
     unit \in {"Minutes", "Weeks"}, notif \in BOOLEAN}

CredentialConfigurations ==
  {[BaseConfiguration EXCEPT !.binanceApiSecret = secret, !.binanceApiKey = key] :
     secret \in {"", "secret"}, key \in {"", "abc"}}

InitLifecycle ==
  /\ environment = [prices |-> {1}, trends |-> {BULLISH, BEARISH},
                    stalls |-> {301}, positions |-> {}, iterations |-> MaxIter]
  /\ \/ /\ configuration \in ToggleConfigurations
        /\ gui \in {InitGui(bot) : bot \in {"None", "stopped", "started"}}
        /\ \E c \in Modes : InitWorkers(c)
     \/ /\ configuration \in CredentialConfigurations
        /\ gui = InitGui("None")
        /\ \E c \in Callers : InitWorkers(c)
     \/ /\ configuration = [BaseConfiguration EXCEPT !.interval = "1m"]
        /\ gui = InitGui("None")
        /\ \E c \in Modes : InitWorkers(c)

\* Runs of a LIVE worker that vary the scheduling unit and magnitude and the
\* length of the stalls
InitScheduler ==
  /\ environment = [prices |-> {1}, trends |-> {NoTrend}, stalls |-> Stalls,
                    positions |-> {}, iterations |-> MaxIter]
  /\ configuration \in
       {[BaseConfiguration EXCEPT
           !.lowerIntervalCheck = FALSE, !.enableTelegramNotification = FALSE,
           !.schedulingIntervalComboBox = unit, !.schedulingTimeUnit = measurement] :
          unit \in Units, measurement \in 0..MaxMeasurement}
  /\ gui = InitGui("None")
  /\ InitWorkers(LIVE)

\* Runs that vary the trends the engine reports
InitTrend ==
  /\ environment = [prices |-> {1}, trends |-> Trends, stalls |-> {0},
                    positions |-> {}, iterations |-> MaxIter]
  /\ configuration \in
       {[BaseConfiguration EXCEPT
           !.schedulingStatisticsCheckBox = FALSE,
           !.enableTelegramNotification = notif] : notif \in BOOLEAN}
  /\ gui = InitGui("None")
  /\ \E c \in Modes : InitWorkers(c)

\* Runs that vary the prices and let the engine open positions
InitTrailing ==
  /\ environment = [prices |-> Prices, trends |-> {NoTrend}, stalls |-> {0},
                    positions |-> {"long", "short"},
                    iterations |-> MaxIter]
  /\ configuration = [BaseConfiguration EXCEPT
                        !.lowerIntervalCheck = FALSE,
                        !.schedulingStatisticsCheckBox = FALSE,
                        !.enableTelegramNotification = FALSE]
  /\ gui = InitGui("None")
  /\ \E c \in Modes : InitWorkers(c)

\* Runs that vary the primary interval over the whole ladder
InitIntervals ==
  /\ environment = [prices |-> {1}, trends |-> {NoTrend}, stalls |-> {0},
                    positions |-> {}, iterations |-> 1]
  /\ configuration \in
       {[BaseConfiguration EXCEPT
           !.interval = interval,
           !.enableTelegramTrading = FALSE,
           !.schedulingStatisticsCheckBox = FALSE,
           !.enableTelegramNotification = FALSE] :
          interval \in {sortedIntervals[i] : i \in 1..Len(sortedIntervals)}}
  /\ gui = InitGui("None")
  /\ \E c \in Modes : InitWorkers(c)

Init ==
  InitLifecycle \/ InitScheduler \/ InitTrend \/ InitTrailing \/ InitIntervals

\* BotThread.__init__ twice over one gui: w1 is dispatched for the live bot and
\* w2 for the simulation, and the pool runs them concurrently
InitBoth ==
  /\ environment = [prices |-> {1}, trends |-> {BULLISH, BEARISH},
                    stalls |-> {0}, positions |-> {}, iterations |-> 1]
  /\ configuration \in
       {[BaseConfiguration EXCEPT
           !.schedulingStatisticsCheckBox = FALSE,
           !.enableTelegramTrading = trading,
           !.enableTelegramNotification = notif] :
          trading \in BOOLEAN, notif \in BOOLEAN}
  /\ gui = InitGui("None")
  /\ caller = [w \in Workers |-> IF w = "w1" THEN LIVE ELSE SIMULATION]
  /\ pc = [w \in Workers |-> "create_trader"]
  /\ nextScheduledEvent = [w \in Workers |-> None]
  /\ scheduleSeconds = [w \in Workers |-> None]
  /\ selfTrader = [w \in Workers |-> "None"]
  /\ lowerTrend = [w \in Workers |-> NoTrend]
  /\ runningLoop = [w \in Workers |-> FALSE]
  /\ iteration = [w \in Workers |-> 0]
  /\ events = [w \in Workers |-> <<>>]
  /\ activity = [w \in Workers |-> [count |-> 0, last |-> "none"]]
  /\ telegram = [w \in Workers |-> [messages |-> 0, statistics |-> 0]]
  /\ errorAt = [w \in Workers |-> "none"]
  /\ checkTime = [w \in Workers |-> None]
  /\ observed = [w \in Workers |-> NoTrend]
  /\ stopAt = [w \in Workers |-> [pc |-> "none", iteration |-> 0]]
  /\ now = StartTime

\* ------------------------------------------------------------------ setup
\* check_api_credentials testing the key before the secret
check_api_credentials_key_first(apiKey, apiSecret) ==
  IF Len(apiKey) = 0
    THEN "Please specify an API key. No API key found."
    ELSE IF Len(apiSecret) = 0
      THEN "Please specify an API secret key. No API secret key found."
      ELSE "ok"

\* check_api_credentials: the message of the ValueError raised, or "ok"
check_api_credentials(apiKey, apiSecret) ==
  IF Len(apiSecret) = 0
    THEN "Please specify an API secret key. No API secret key found."
    ELSE IF Len(apiKey) = 0
      THEN "Please specify an API key. No API key found."
      ELSE "ok"

\* create_trader up to the lowerIntervalCheck test
CreateTrader(w) ==
  /\ pc[w] = "create_trader"
  /\ UNCHANGED <<stopAt, environment, configuration, observed>>
  /\ UNCHANGED <<now, caller, nextScheduledEvent, scheduleSeconds,
                 selfTrader, lowerTrend, runningLoop, iteration, telegram,
                 checkTime>>
  /\ LET c == caller[w]
         credentials == check_api_credentials(configuration.binanceApiKey,
                                              configuration.binanceApiSecret)
         retrieving == EmitActivity(activity[w], "Retrieving data for interval")
     IN
     IF c \notin Modes
       THEN /\ Raise(w, "Invalid caller.")
            /\ UNCHANGED <<gui, activity>>
       ELSE IF c = LIVE /\ credentials # "ok"
         THEN /\ Raise(w, credentials)
              /\ UNCHANGED <<gui, activity>>
         ELSE \/ \* SimulationTrader(...) / RealTrader(...) raises
                 /\ Raise(w, "trader construction failed")
                 /\ activity' = [activity EXCEPT ![w] = retrieving]
                 /\ UNCHANGED gui
              \/ /\ gui' = set_trader(gui, c, NewTrader)
                 /\ activity' = [activity EXCEPT ![w] =
                       EmitActivity(retrieving, "Retrieved data successfully.")]
                 /\ Goto(w, "initialize_lower_interval_trading")

IndexOf(seq, x) == CHOOSE i \in 1..Len(seq) : seq[i] = x

\* sortedIntervals[sortedIntervals.index(interval) - 1]
LowerInterval(interval) == sortedIntervals[IndexOf(sortedIntervals, interval) - 1]

set_lower_interval_data(g, c, d) ==
  IF c = LIVE THEN [g EXCEPT !.lowerIntervalData = d]
              ELSE [g EXCEPT !.simulationLowerIntervalData = d]

\* create_trader's last statement and initialize_lower_interval_trading
InitializeLowerIntervalTrading(w) ==
  /\ pc[w] = "initialize_lower_interval_trading"
  /\ UNCHANGED <<stopAt, environment, configuration, observed>>
  /\ UNCHANGED <<now, caller, nextScheduledEvent, scheduleSeconds,
                 selfTrader, lowerTrend, runningLoop, iteration, telegram,
                 checkTime>>
  /\ IF configuration.lowerIntervalCheck /\ configuration.interval # "1m"
       THEN LET lowerInterval == LowerInterval(configuration.interval)
                retrieving == EmitActivity(activity[w],
                                 "Retrieving data for lower interval")
            IN \/ \* Data(lowerInterval) raises
                  /\ Raise(w, "lower interval data retrieval failed")
                  /\ activity' = [activity EXCEPT ![w] = retrieving]
                  /\ UNCHANGED gui
               \/ /\ gui' = set_lower_interval_data(gui, caller[w], lowerInterval)
                  /\ activity' = [activity EXCEPT ![w] = EmitActivity(retrieving,
                        "Retrieved lower interval data successfully.")]
                  /\ Goto(w, "set_parameters")
       ELSE /\ Goto(w, "set_parameters")
            /\ UNCHANGED <<gui, activity>>

\* setup_bot: gui.set_parameters(caller); self.trader = gui.get_trader(caller)
SetParameters(w) ==
  /\ pc[w] = "set_parameters"
  /\ UNCHANGED <<stopAt, environment, configuration, observed>>
  /\ UNCHANGED <<gui, now, caller, nextScheduledEvent,
                 scheduleSeconds, lowerTrend, runningLoop, iteration, activity,
                 telegram, checkTime>>
  /\ \/ /\ Raise(w, "set_parameters failed")
        /\ UNCHANGED selfTrader
     \/ /\ selfTrader' = [selfTrader EXCEPT ![w] = caller[w]]
        /\ Goto(w, "handle_telegram_bot")

\* setup_bot's enableTelegramTrading branch and handle_telegram_bot
HandleTelegramBot(w) ==
  /\ pc[w] = "handle_telegram_bot"
  /\ UNCHANGED <<stopAt, environment, configuration, observed>>
  /\ UNCHANGED <<now, caller, nextScheduledEvent, scheduleSeconds,
                 selfTrader, lowerTrend, runningLoop, iteration, activity,
                 telegram, checkTime>>
  /\ IF caller[w] = LIVE /\ configuration.enableTelegramTrading
       THEN \/ \* TelegramBot(gui, token) raises
               /\ gui.telegramBot = "None"
               /\ Raise(w, "TelegramBot construction failed")
               /\ UNCHANGED gui
            \/ \* gui.telegramBot.start() raises; a bot just created stays
               /\ Raise(w, "telegramBot.start failed")
               /\ gui' = [gui EXCEPT !.telegramBot =
                            IF @ = "None" THEN "stopped" ELSE @]
            \/ /\ gui' = [gui EXCEPT !.telegramBot = "started"]
               /\ Goto(w, "initialize_scheduler")
       ELSE /\ Goto(w, "initialize_scheduler")
            /\ UNCHANGED gui

\* initialize_scheduler's unit table: the seconds, or None for an invalid unit
Seconds(unit, measurement) ==
  IF unit = "Seconds" THEN measurement
  ELSE IF unit = "Minutes" THEN measurement * 60
  ELSE IF unit = "Hours" THEN measurement * 3600
  ELSE IF unit = "Days" THEN measurement * 3600 * 24
  ELSE None

\* a setup that arms the scheduler for either mode
ArmsSchedulerAnyCaller(c, checked) == checked

\* setup_bot: the scheduler is initialised under `caller == LIVE` and the
\* schedulingStatisticsCheckBox test
ArmsScheduler(c, checked) == c = LIVE /\ checked

\* setup_bot's schedulingStatisticsCheckBox branch and initialize_scheduler
InitializeScheduler(w) ==
  /\ pc[w] = "initialize_scheduler"
  /\ UNCHANGED <<stopAt, environment, configuration, observed>>
  /\ UNCHANGED <<gui, now, caller, selfTrader, lowerTrend,
                 runningLoop, iteration, activity, telegram, checkTime>>
  /\ IF ArmsScheduler(caller[w], configuration.schedulingStatisticsCheckBox)
       THEN LET seconds == Seconds(configuration.schedulingIntervalComboBox,
                                   configuration.schedulingTimeUnit)
            IN IF seconds = None
                 THEN /\ Raise(w, "Invalid type of unit.")
                      /\ UNCHANGED <<nextScheduledEvent, scheduleSeconds>>
                 ELSE /\ scheduleSeconds' = [scheduleSeconds EXCEPT ![w] = seconds]
                      /\ nextScheduledEvent' =
                           [nextScheduledEvent EXCEPT ![w] = now + seconds]
                      /\ Goto(w, "set_running")
       ELSE /\ Goto(w, "set_running")
            /\ UNCHANGED <<nextScheduledEvent, scheduleSeconds>>

\* setup_bot assigning the flag of the other mode
set_running_flag_swapped(g, c, b) ==
  IF c = LIVE THEN [g EXCEPT !.simulationRunningLive = b]
              ELSE [g EXCEPT !.runningLive = b]

set_running_flag(g, c, b) ==
  IF c = LIVE THEN [g EXCEPT !.runningLive = b]
              ELSE [g EXCEPT !.simulationRunningLive = b]

\* setup_bot: gui.runningLive = True / gui.simulationRunningLive = True
SetRunning(w) ==
  /\ pc[w] = "set_running"
  /\ UNCHANGED <<stopAt, environment, configuration, observed>>
  /\ UNCHANGED <<now, caller, nextScheduledEvent, scheduleSeconds,
                 selfTrader, lowerTrend, runningLoop, iteration, activity,
                 telegram, checkTime>>
  /\ IF caller[w] \in Modes
       THEN /\ gui' = set_running_flag(gui, caller[w], TRUE)
            /\ Goto(w, "started")
       ELSE /\ Raise(w, "Invalid type of caller specified.")
            /\ UNCHANGED gui

\* run() without the started signal
EmitStartedMissing(evs, e) == evs

\* self.signals.started.emit(caller)
EmitStarted(evs, e) == Append(evs, e)

\* run: self.signals.started.emit(caller)
Started(w) ==
  /\ pc[w] = "started"
  /\ events' = [events EXCEPT ![w] = EmitStarted(@, Event("started", w, ""))]
  /\ pc' = [pc EXCEPT ![w] = "trading_loop"]
  /\ UNCHANGED <<stopAt, environment, configuration, observed>>
  /\ UNCHANGED <<gui, now, caller, nextScheduledEvent,
                 scheduleSeconds, selfTrader, lowerTrend, runningLoop, iteration,
                 activity, telegram, errorAt, checkTime>>

\* ------------------------------------------------------------- the loop
\* trading_loop before the while statement
TradingLoop(w) ==
  /\ pc[w] = "trading_loop"
  /\ UNCHANGED <<stopAt, environment, configuration, observed>>
  /\ UNCHANGED <<gui, now, caller, nextScheduledEvent,
                 scheduleSeconds, selfTrader, iteration, activity, checkTime>>
  /\ lowerTrend' = [lowerTrend EXCEPT ![w] = NoTrend]
  /\ runningLoop' = [runningLoop EXCEPT ![w] = running_flag(gui, caller[w])]
  /\ IF nextScheduledEvent[w] # None
       THEN IF gui.telegramBot = "None"
              THEN \* None has no attribute send_message
                   /\ Raise(w, "AttributeError")
                   /\ UNCHANGED telegram
              ELSE /\ telegram' = [telegram EXCEPT ![w].messages = @ + 1]
                   /\ \/ Raise(w, "send_message failed")
                      \/ Goto(w, "while")
       ELSE /\ Goto(w, "while")
            /\ UNCHANGED telegram

\* while runningLoop: the loop-continuation point
While(w) ==
  /\ pc[w] = "while"
  /\ runningLoop[w] => iteration[w] < environment.iterations
  /\ IF runningLoop[w]
       THEN /\ iteration' = [iteration EXCEPT ![w] = @ + 1]
            /\ Goto(w, LoopOrder[1])
       ELSE /\ Return(w)
            /\ UNCHANGED iteration
  /\ UNCHANGED <<stopAt, environment, configuration, observed>>
  /\ UNCHANGED <<gui, now, caller, nextScheduledEvent,
                 scheduleSeconds, selfTrader, lowerTrend, runningLoop, activity,
                 telegram, checkTime>>

\* update_data: the refresh blocks for some time when the data is stale
UpdateData(w) ==
  /\ pc[w] = "update_data"
  /\ UNCHANGED <<stopAt, environment, configuration, observed>>
  /\ UNCHANGED <<gui, caller, nextScheduledEvent, scheduleSeconds,
                 selfTrader, lowerTrend, runningLoop, iteration, activity,
                 telegram, checkTime>>
  /\ \E stall \in environment.stalls :
       /\ now' = now + stall
       /\ \/ Raise(w, "update_data failed")
          \/ Goto(w, After("update_data"))

\* handle_logging
HandleLogging(w) ==
  /\ pc[w] = "handle_logging"
  /\ UNCHANGED <<stopAt, environment, configuration, observed>>
  /\ UNCHANGED <<gui, now, caller, nextScheduledEvent,
                 scheduleSeconds, selfTrader, lowerTrend, runningLoop, iteration,
                 activity, telegram, checkTime>>
  /\ \/ /\ gui.advancedLogging
        /\ Raise(w, "output_basic_information failed")
     \/ Goto(w, After("handle_logging"))

\* the long ratchet with its comparison reversed
NewLongTrailingPriceReversed(longTrailingPrice, currentPrice) ==
  IF longTrailingPrice # None /\ currentPrice < longTrailingPrice
    THEN currentPrice ELSE longTrailingPrice

\* handle_trailing_prices: the two ratchets
NewLongTrailingPrice(longTrailingPrice, currentPrice) ==
  IF longTrailingPrice # None /\ currentPrice > longTrailingPrice
    THEN currentPrice ELSE longTrailingPrice

NewShortTrailingPrice(shortTrailingPrice, currentPrice) ==
  IF shortTrailingPrice # None /\ currentPrice < shortTrailingPrice
    THEN currentPrice ELSE shortTrailingPrice

handle_trailing_prices(t, price) ==
  [t EXCEPT !.currentPrice = price,
            !.longTrailingPrice = NewLongTrailingPrice(@, price),
            !.shortTrailingPrice = NewShortTrailingPrice(@, price)]

HandleTrailingPrices(w) ==
  /\ pc[w] = "handle_trailing_prices"
  /\ UNCHANGED <<stopAt, environment, configuration, observed>>
  /\ UNCHANGED <<now, caller, nextScheduledEvent, scheduleSeconds,
                 selfTrader, lowerTrend, runningLoop, iteration, activity,
                 telegram, checkTime>>
  /\ \/ \* trader.dataView.get_current_price() raises
        /\ Raise(w, "get_current_price failed")
        /\ UNCHANGED gui
     \/ \E price \in environment.prices :
          /\ gui' = set_trader(gui, caller[w],
                       handle_trailing_prices(get_trader(gui, caller[w]), price))
          /\ Goto(w, After("handle_trailing_prices"))

\* trader.main_logic(): the engine's decision step picks the primary trend and
\* may open a long or a short position, which starts that side's trailing
\* price at the current price; it never moves a trailing price that is set
main_logic(t, trends, positions) ==
  {[t EXCEPT !.trend = tr, !.longTrailingPrice = lg, !.shortTrailingPrice = sh] :
     tr \in trends,
     lg \in {t.longTrailingPrice} \cup
            IF "long" \in positions /\ t.longTrailingPrice = None
              THEN {t.currentPrice} ELSE {},
     sh \in {t.shortTrailingPrice} \cup
            IF "short" \in positions /\ t.shortTrailingPrice = None
              THEN {t.currentPrice} ELSE {}}

\* handle_trading
HandleTrading(w) ==
  /\ pc[w] = "handle_trading"
  /\ UNCHANGED <<stopAt, environment, configuration, observed>>
  /\ UNCHANGED <<now, caller, nextScheduledEvent, scheduleSeconds,
                 selfTrader, lowerTrend, runningLoop, iteration, activity,
                 telegram, checkTime>>
  /\ \/ /\ Raise(w, "main_logic failed")
        /\ UNCHANGED gui
     \/ \E t \in main_logic(get_trader(gui, caller[w]), environment.trends,
                         environment.positions) :
          /\ gui' = set_trader(gui, caller[w], t)
          /\ Goto(w, After("handle_trading"))

\* handle_scheduler's test with > for >=
DueStrictly(deadline, clock) == deadline # None /\ clock > deadline

\* handle_scheduler's test
Due(deadline, clock) == deadline # None /\ clock >= deadline

\* rescheduling from the old deadline
RescheduleFromDeadline(deadline, clock, seconds) == deadline + seconds

\* no rescheduling
RescheduleNever(deadline, clock, seconds) == deadline

\* handle_scheduler's assignment: clock is the second datetime.now()
Reschedule(deadline, clock, seconds) == clock + seconds

\* handle_scheduler
HandleScheduler(w) ==
  /\ pc[w] = "handle_scheduler"
  /\ UNCHANGED <<stopAt, environment, configuration, observed>>
  /\ UNCHANGED <<gui, caller, scheduleSeconds, selfTrader,
                 lowerTrend, runningLoop, iteration, activity>>
  /\ checkTime' = [checkTime EXCEPT ![w] = now]
  /\ IF Due(nextScheduledEvent[w], now)
       THEN IF gui.telegramBot = "None"
              THEN /\ Raise(w, "AttributeError")
                   /\ UNCHANGED <<now, nextScheduledEvent, telegram>>
              ELSE /\ telegram' = [telegram EXCEPT ![w].statistics = @ + 1]
                   /\ \E sendDelay \in 0..MaxSendDelay :
                        /\ now' = now + sendDelay
                        /\ \/ /\ Raise(w, "send_statistics_telegram failed")
                              /\ UNCHANGED nextScheduledEvent
                           \/ /\ nextScheduledEvent' =
                                   [nextScheduledEvent EXCEPT ![w] =
                                      Reschedule(@, now', scheduleSeconds[w])]
                              /\ Goto(w, After("handle_scheduler"))
       ELSE /\ Goto(w, After("handle_scheduler"))
            /\ UNCHANGED <<now, nextScheduledEvent, telegram>>

\* handle_lower_interval_cross's test with `and` for `or`
NotifyAnd(previousLowerTrend, newLowerTrend, trend) ==
  ~(previousLowerTrend = newLowerTrend /\ newLowerTrend = trend)

\* handle_lower_interval_cross's test, negated: the else branch is taken
Notify(previousLowerTrend, newLowerTrend, trend) ==
  ~(previousLowerTrend = newLowerTrend \/ newLowerTrend = trend)

\* f'{trends[lowerTrend]} trend detected on lower interval data.'
TrendMessage(tr) ==
  IF tr = BEARISH THEN "Bearish trend detected on lower interval data."
  ELSE IF tr = BULLISH THEN "Bullish trend detected on lower interval data."
  ELSE "No trend detected on lower interval data."

\* handle_lower_interval_cross keeping the previous lower trend when it stays
\* silent
ReturnedTrendKept(notified, previousLowerTrend, newLowerTrend) ==
  IF notified THEN newLowerTrend ELSE previousLowerTrend

\* handle_lower_interval_cross's return value: both branches return lowerTrend
ReturnedTrend(notified, previousLowerTrend, newLowerTrend) == newLowerTrend

\* trading_loop: lowerTrend = self.handle_lower_interval_cross(caller, lowerTrend)
HandleLowerIntervalCross(w) ==
  /\ pc[w] = "handle_lower_interval_cross"
  /\ UNCHANGED <<stopAt, environment, configuration>>
  /\ UNCHANGED <<gui, now, caller, nextScheduledEvent,
                 scheduleSeconds, selfTrader, runningLoop, iteration, checkTime>>
  /\ \/ \* trader.get_trend(dataObject=lowerData) raises
        /\ Raise(w, "get_trend failed")
        /\ UNCHANGED <<lowerTrend, activity, telegram, observed>>
     \/ \E newLowerTrend \in environment.trends :
          /\ observed' = [observed EXCEPT ![w] = newLowerTrend]
          /\ IF Notify(lowerTrend[w], newLowerTrend, get_trader(gui, caller[w]).trend)
               THEN /\ activity' = [activity EXCEPT ![w] =
                                      EmitActivity(@, TrendMessage(newLowerTrend))]
                    /\ IF configuration.enableTelegramNotification
                         THEN IF gui.telegramBot = "None"
                                THEN /\ Raise(w, "AttributeError")
                                     /\ UNCHANGED <<lowerTrend, telegram>>
                                ELSE /\ telegram' =
                                          [telegram EXCEPT ![w].messages = @ + 1]
                                     /\ \/ /\ Raise(w, "send_message failed")
                                           /\ UNCHANGED lowerTrend
                                        \/ /\ lowerTrend' = [lowerTrend EXCEPT ![w] =
                                                ReturnedTrend(TRUE, @, newLowerTrend)]
                                           /\ Goto(w, After("handle_lower_interval_cross"))
                         ELSE /\ lowerTrend' = [lowerTrend EXCEPT ![w] =
                                   ReturnedTrend(TRUE, @, newLowerTrend)]
                              /\ Goto(w, After("handle_lower_interval_cross"))
                              /\ UNCHANGED telegram
               ELSE /\ lowerTrend' = [lowerTrend EXCEPT ![w] =
                         ReturnedTrend(FALSE, @, newLowerTrend)]
                    /\ Goto(w, After("handle_lower_interval_cross"))
                    /\ UNCHANGED <<activity, telegram>>

\* a loop that never re-reads the flag
ReadRunningNever(g, c) == TRUE

\* trading_loop's last statement: the flag read for the loop-continuation test
ReadRunning(g, c) == running_flag(g, c)

\* trading_loop: statDict = self.get_statistics(); updated.emit; re-read the flag
GetStatistics(w) ==
  /\ pc[w] = "get_statistics"
  /\ UNCHANGED <<stopAt, environment, configuration, observed>>
  /\ UNCHANGED <<gui, now, caller, nextScheduledEvent,
                 scheduleSeconds, selfTrader, lowerTrend, iteration, activity,
                 telegram, checkTime>>
  /\ \/ /\ Raise(w, "get_statistics failed")
        /\ UNCHANGED runningLoop
     \/ /\ events' = [events EXCEPT ![w] = Append(@, Event("updated", w, ""))]
        /\ runningLoop' = [runningLoop EXCEPT ![w] = ReadRunning(gui, caller[w])]
        /\ pc' = [pc EXCEPT ![w] = After("get_statistics")]
        /\ UNCHANGED errorAt

\* ------------------------------------------------------- the environment
\* the GUI clears the running flag of a mode (the user ends that bot)
EnvStop(m) ==
  /\ running_flag(gui, m)
  /\ gui' = set_running_flag(gui, m, FALSE)
  /\ stopAt' = [w \in Workers |->
                  IF caller[w] = m /\ pc[w] \notin {"idle", "done"}
                    THEN [pc |-> pc[w], iteration |-> iteration[w]]
                    ELSE stopAt[w]]
  /\ UNCHANGED <<environment, configuration, now, caller, pc, nextScheduledEvent,
                 scheduleSeconds, selfTrader, lowerTrend, runningLoop, iteration,
                 events, activity, telegram, errorAt, checkTime, observed>>

Next ==
  \/ \E w \in Workers : CreateTrader(w)
  \/ \E w \in Workers : InitializeLowerIntervalTrading(w)
  \/ \E w \in Workers : SetParameters(w)
  \/ \E w \in Workers : HandleTelegramBot(w)
  \/ \E w \in Workers : InitializeScheduler(w)
  \/ \E w \in Workers : SetRunning(w)
  \/ \E w \in Workers : Started(w)
  \/ \E w \in Workers : TradingLoop(w)
  \/ \E w \in Workers : While(w)
  \/ \E w \in Workers : UpdateData(w)
  \/ \E w \in Workers : HandleLogging(w)
  \/ \E w \in Workers : HandleTrailingPrices(w)
  \/ \E w \in Workers : HandleTrading(w)
  \/ \E w \in Workers : HandleScheduler(w)
  \/ \E w \in Workers : HandleLowerIntervalCross(w)
  \/ \E w \in Workers : GetStatistics(w)
  \/ \E m \in Modes : EnvStop(m)

Spec == Init /\ [][Next]_vars

\* any statement of worker w's run()
WorkerStep(w) ==
  \/ CreateTrader(w) \/ InitializeLowerIntervalTrading(w) \/ SetParameters(w)
  \/ HandleTelegramBot(w) \/ InitializeScheduler(w) \/ SetRunning(w)
  \/ Started(w) \/ TradingLoop(w) \/ While(w) \/ UpdateData(w)
  \/ HandleLogging(w) \/ HandleTrailingPrices(w) \/ HandleTrading(w)
  \/ HandleScheduler(w) \/ HandleLowerIntervalCross(w) \/ GetStatistics(w)

\* Runs of either mode with everything switched on, over refreshes that
\* return at once or stall
InitStop ==
  /\ environment = [prices |-> {1}, trends |-> {BULLISH, BEARISH},
                    stalls |-> {0, 301}, positions |-> {}, iterations |-> MaxIter]
  /\ configuration = BaseConfiguration
  /\ gui = InitGui("None")
  /\ \E c \in Modes : InitWorkers(c)

\* the pool thread keeps running the worker and every collaborator call
\* returns or raises: a statement that can be taken is eventually taken
FairSpec == InitStop /\ [][Next]_vars /\ \A w \in Workers : WF_vars(WorkerStep(w))

\* one LIVE and one SIMULATION worker under every interleaving
SpecTwo == InitBoth /\ [][Next]_vars


\* ================================================================ claims
Last(evs) == evs[Len(evs)]

\* worker w takes the step at label from, and the call returns to label to
Returns(w, from, to) == pc[w] = from /\ pc'[w] = to

\* ---------------------------------------------------------------------
\* C1: a call of handle_lower_interval_cross emits the trend-cross activity
\* message if and only if the lower trend it observed differs from the previous
\* lower trend and from the primary trend, for every combination of the three;
\* the message it emits names the observed trend.
C1_NotifyIffCross ==
  [][\A w \in Workers :
       LET previous == lowerTrend[w]
           primary == get_trader(gui, caller[w]).trend
           emitted == activity'[w].count = activity[w].count + 1
       IN pc[w] = "handle_lower_interval_cross" /\ pc'[w] # pc[w] =>
            /\ pc'[w] = "get_statistics" =>
                 (emitted <=> (lowerTrend'[w] # previous /\ lowerTrend'[w] # primary))
            /\ emitted =>
                 \E current \in Trends :
                   /\ activity'[w].last = TrendMessage(current)
                   /\ current # previous /\ current # primary
            /\ ~emitted => activity'[w] = activity[w]]_vars

C1_Witness ==
  \E w \in Workers :
    /\ pc[w] = "get_statistics"
    /\ lowerTrend[w] = NoTrend
    /\ get_trader(gui, caller[w]).trend = BULLISH
    /\ iteration[w] = 2
    /\ activity[w].last = TrendMessage(NoTrend)

C3_OneFirePerDueCheck ==
  [][\A w \in Workers :
       LET due == nextScheduledEvent[w] # None /\ now >= nextScheduledEvent[w]
       IN /\ pc[w] = "handle_scheduler" /\ pc'[w] # pc[w] =>
               /\ due => telegram'[w].statistics = telegram[w].statistics + 1
               /\ ~due => /\ telegram'[w].statistics = telegram[w].statistics
                          /\ nextScheduledEvent'[w] = nextScheduledEvent[w]
                          /\ scheduleSeconds'[w] = scheduleSeconds[w]
          /\ ~(pc[w] = "handle_scheduler" /\ pc'[w] # pc[w]) =>
               telegram'[w].statistics = telegram[w].statistics]_vars

\* a stall of more than two intervals, then two checks: one fire
C3_Witness ==
  \E w \in Workers :
    /\ scheduleSeconds[w] = 300
    /\ checkTime[w] >= StartTime + 601
    /\ iteration[w] = 2
    /\ pc[w] = "handle_lower_interval_cross"
    /\ telegram[w].statistics = 1

\* ---------------------------------------------------------------------
\* C4: nextScheduledEvent is None until initialize_scheduler sets it, and once
\* it is set with a positive scheduleSeconds it is later than the clock reading
\* of the last handle_scheduler call that returned.
C4_DeadlineInFuture ==
  LET BeforeArmed == {"idle", "create_trader", "initialize_lower_interval_trading",
                      "set_parameters", "handle_telegram_bot", "initialize_scheduler"}
  IN \A w \in Workers :
       /\ pc[w] \in BeforeArmed \/ errorAt[w] \in BeforeArmed
            => nextScheduledEvent[w] = None
       /\ (nextScheduledEvent[w] # None /\ scheduleSeconds[w] > 0
             /\ checkTime[w] # None /\ errorAt[w] # "handle_scheduler")
            => nextScheduledEvent[w] > checkTime[w]

C4_Witness ==
  \E w \in Workers :
    /\ pc[w] = "get_statistics"
    /\ scheduleSeconds[w] = 60
    /\ telegram[w].statistics = 2
    /\ nextScheduledEvent[w] > checkTime[w]

C6_EmptySecretFails ==
  \A w \in Workers :
    (caller[w] = LIVE /\ configuration.binanceApiSecret = ""
       /\ pc[w] \notin {"idle", "create_trader"}) =>
      /\ pc[w] = "done"
      /\ errorAt[w] = "create_trader"
      /\ events[w] = <<[kind |-> "error", caller |-> LIVE,
                        msg |-> "Please specify an API secret key. No API secret key found."]>>
      /\ ~gui.trader.built
      /\ selfTrader[w] = "None"
      /\ activity[w].count = 0

C6_Witness ==
  \E w \in Workers :
    /\ caller[w] = LIVE
    /\ configuration.binanceApiSecret = ""
    /\ configuration.binanceApiKey = "abc"
    /\ pc[w] = "done"
    /\ Len(events[w]) = 1

\* ---------------------------------------------------------------------
\* C7: a run whose setup raised (in create_trader, the lower-interval feed,
\* set_parameters, the Telegram bot, initialize_scheduler or the caller check)
\* has emitted exactly one event, an error, has run no step of the loop body,
\* and is over.
C7_SetupFailureIsTerminal ==
  \A w \in Workers :
    errorAt[w] \in SetupSteps =>
      /\ Kinds(events[w]) = <<"error">>
      /\ iteration[w] = 0
      /\ pc[w] = "done"

\* the scheduling unit was invalid: the engine and the Telegram bot are there
C7_Witness ==
  \E w \in Workers :
    /\ errorAt[w] = "initialize_scheduler"
    /\ gui.trader.built
    /\ gui.telegramBot = "started"
    /\ Kinds(events[w]) = <<"error">>

\* ---------------------------------------------------------------------
\* C8: a run emits started at most once, and before each updated event there
\* is exactly one started event, of the same worker's caller.
C8_OneStartedBeforeUpdated ==
  \A w \in Workers :
    /\ Count(events[w], "started") <= 1
    /\ \A i \in 1..Len(events[w]) :
         events[w][i].kind = "updated" =>
           Cardinality({j \in 1..(i - 1) :
                          /\ events[w][j].kind = "started"
                          /\ events[w][j].caller = events[w][i].caller}) = 1

C8_Witness ==
  \E w \in Workers : Kinds(events[w]) = <<"started", "updated", "updated">>

\* ---------------------------------------------------------------------
\* C9: a run emits at most one error event and it is the last event; when a
\* step of the loop raised, the snapshot of that iteration was not emitted (one
\* updated per completed iteration), and from then on the worker takes no step.
C9_LoopErrorIsTerminal ==
  /\ [](\A w \in Workers :
          /\ Count(events[w], "error") <= 1
          /\ Count(events[w], "error") = 1 =>
               Last(events[w]).kind = "error" /\ pc[w] = "done"
          /\ errorAt[w] # "none" => Count(events[w], "error") = 1
          /\ errorAt[w] \in LoopSteps =>
               Count(events[w], "updated") = iteration[w] - 1)
  /\ [][\A w \in Workers :
          errorAt[w] # "none" =>
            UNCHANGED <<pc[w], events[w], iteration[w], activity[w], telegram[w],
                        lowerTrend[w], nextScheduledEvent[w], errorAt[w],
                        get_trader(gui, caller[w])>>]_vars

\* the decision step of the second iteration raised
C9_Witness ==
  \E w \in Workers :
    /\ errorAt[w] = "handle_trading"
    /\ iteration[w] = 2
    /\ Kinds(events[w]) = <<"started", "updated", "error">>

\* ---------------------------------------------------------------------
\* C10: when the running flag is cleared while the worker is inside iteration
\* k, no iteration after k begins and no updated event after the k-th is
\* emitted; when the run then ends without an error, the k-th updated event
\* has been emitted.
C10_StopCompletesIteration ==
  \A w \in Workers :
    stopAt[w].pc \in LoopSteps =>
      /\ iteration[w] = stopAt[w].iteration
      /\ Count(events[w], "updated") <= stopAt[w].iteration
      /\ pc[w] \in LoopSteps \cup {"while", "done"}
      /\ (pc[w] \in {"while", "done"} /\ errorAt[w] = "none") =>
           Count(events[w], "updated") = stopAt[w].iteration

\* a SIMULATION worker stopped before the scheduler check of its first
\* iteration has left the loop after one snapshot
C10_Witness ==
  \E w \in Workers :
    /\ caller[w] = SIMULATION
    /\ stopAt[w] = [pc |-> "handle_scheduler", iteration |-> 1]
    /\ pc[w] = "done"
    /\ Kinds(events[w]) = <<"started", "updated">>


\* ---------------------------------------------------------------------
\* C11: inside the loop a worker moves only from the test to update_data, then
\* handle_logging, handle_trailing_prices, handle_trading, handle_scheduler,
\* handle_lower_interval_cross, get_statistics and back to the test (or out of
\* the run); updated is emitted only by the step that leaves get_statistics, and
\* an iteration begins only at the test, so while iteration k runs exactly k - 1
\* snapshots have been emitted.
C11_ExpectedOrder ==
  {<<"while", "update_data">>, <<"update_data", "handle_logging">>,
   <<"handle_logging", "handle_trailing_prices">>,
   <<"handle_trailing_prices", "handle_trading">>,
   <<"handle_trading", "handle_scheduler">>,
   <<"handle_scheduler", "handle_lower_interval_cross">>,
   <<"handle_lower_interval_cross", "get_statistics">>,
   <<"get_statistics", "while">>}

C11_StepsInOrder ==
  /\ [](\A w \in Workers :
          /\ pc[w] \in LoopSteps =>
               iteration[w] >= 1 /\ Count(events[w], "updated") = iteration[w] - 1
          /\ pc[w] = "while" => Count(events[w], "updated") = iteration[w])
  /\ [][\A w \in Workers :
          /\ (pc'[w] # pc[w] /\ pc[w] \in LoopSteps \cup {"while"}) =>
               pc'[w] = "done" \/ <<pc[w], pc'[w]>> \in C11_ExpectedOrder
          /\ pc'[w] \in LoopSteps /\ pc'[w] # pc[w] =>
               <<pc[w], pc'[w]>> \in C11_ExpectedOrder
          /\ Count(events'[w], "updated") # Count(events[w], "updated") =>
               Returns(w, "get_statistics", "while")
          /\ iteration'[w] # iteration[w] =>
               Returns(w, "while", "update_data")
                 /\ iteration'[w] = iteration[w] + 1]_vars

\* the second iteration is about to build its snapshot
C11_Witness ==
  \E w \in Workers :
    /\ pc[w] = "get_statistics"
    /\ iteration[w] = 2
    /\ Kinds(events[w]) = <<"started", "updated">>
    /\ get_trader(gui, caller[w]).trend = BEARISH


\* ---------------------------------------------------------------------
Flag(g, m) == IF m = LIVE THEN g.runningLive ELSE g.simulationRunningLive

\* C12 as stated: every change of gui.runningLive / gui.simulationRunningLive
\* is made by the environment, never by a step of a worker.
C12_OnlyEnvironmentWritesFlag ==
  [][\A m \in Modes : Flag(gui', m) # Flag(gui, m) => pc' = pc]_vars

\* C12 amended: the worker writes the running flag of its own mode, setting it
\* to true as the last statement of a successful setup_bot; trading_loop only
\* reads it; the worker never clears it and never writes the other mode's
\* flag; every other change is the environment clearing a flag.
C12_WorkerOnlySetsOwnFlag ==
  [][\A m \in Modes :
       Flag(gui', m) # Flag(gui, m) =>
         \/ pc' = pc /\ ~Flag(gui', m)
         \/ \E w \in Workers :
              /\ caller[w] = m
              /\ Returns(w, "set_running", "started")
              /\ Flag(gui', m)
              /\ \A v \in Workers \ {w} : pc'[v] = pc[v]]_vars

\* setup_bot has just set the flag of the worker's mode
C12_Witness ==
  \E w \in Workers :
    /\ pc[w] = "started"
    /\ Flag(gui, caller[w])
    /\ \A m \in Modes \ {caller[w]} : ~Flag(gui, m)
    /\ events[w] = <<>>


\* ---------------------------------------------------------------------
\* what a worker keeps in its own fields and locals
Private(w) ==
  <<nextScheduledEvent[w], scheduleSeconds[w], selfTrader[w], lowerTrend[w],
    runningLoop[w], iteration[w], pc[w], events[w], activity[w], telegram[w],
    errorAt[w], checkTime[w], observed[w]>>

\* what the gui keeps for one mode: the engine handle and the lower feed
ModeData(g, m) == <<get_trader(g, m), get_lower_interval_data(g, m)>>

\* the part of C13 the code keeps: a step of one worker leaves the other
\* worker's fields, engine handle, lower feed and running flag alone, and the
\* environment clearing one mode's flag changes nothing else
C13_DisjointHandles ==
  [][/\ \A w \in Workers :
          pc'[w] # pc[w] =>
            /\ \A v \in Workers \ {w} : Private(v)' = Private(v)
            /\ \A m \in Modes \ {caller[w]} :
                 ModeData(gui', m) = ModeData(gui, m) /\ Flag(gui', m) = Flag(gui, m)
     /\ pc' = pc =>
          /\ \A w \in Workers : Private(w)' = Private(w)
          /\ \A m \in Modes : ModeData(gui', m) = ModeData(gui, m)
          /\ Cardinality({m \in Modes : Flag(gui', m) # Flag(gui, m)}) <= 1]_vars

\* C13: with one LIVE and one SIMULATION worker running concurrently, no
\* mutable datum written by one worker is read or written by the other: the
\* engine handles, scheduler state and previous lower trend are disjoint, and
\* the SIMULATION worker neither writes nor uses gui.telegramBot, which the
\* LIVE worker creates and starts (no message sent through it, no
\* AttributeError from finding it missing); clearing one mode's flag changes
\* nothing of the other mode.
C13_NoSharedMutableData ==
  [][/\ \A w \in Workers :
          pc'[w] # pc[w] =>
            /\ \A v \in Workers \ {w} : Private(v)' = Private(v)
            /\ \A m \in Modes \ {caller[w]} :
                 ModeData(gui', m) = ModeData(gui, m) /\ Flag(gui', m) = Flag(gui, m)
            /\ caller[w] = SIMULATION =>
                 /\ gui'.telegramBot = gui.telegramBot
                 /\ telegram'[w] = telegram[w]
                 /\ ~(errorAt'[w] # errorAt[w] /\ Last(events'[w]).msg = "AttributeError")
     /\ pc' = pc =>
          /\ \A w \in Workers : Private(w)' = Private(w)
          /\ \A m \in Modes : ModeData(gui', m) = ModeData(gui, m)
          /\ Cardinality({m \in Modes : Flag(gui', m) # Flag(gui, m)}) <= 1]_vars


\* ---------------------------------------------------------------------
\* C14: the trend-cross check runs in an iteration only if setup created a
\* lower-interval feed: when lower-interval trading is disabled or the primary
\* interval is '1m' there is no feed, and then no iteration reaches the check,
\* asks the engine for a lower trend or emits a trend-cross message.
C14_CrossCheckOnlyWithFeed ==
  /\ [](\A w \in Workers :
          pc[w] = "handle_lower_interval_cross" =>
            get_lower_interval_data(gui, caller[w]) # NoData)
  /\ [][\A w \in Workers :
          (/\ pc[w] \in LoopSteps
           /\ pc'[w] # pc[w]
           /\ get_lower_interval_data(gui, caller[w]) = NoData) =>
            /\ lowerTrend'[w] = lowerTrend[w]
            /\ activity'[w] = activity[w]
            /\ telegram'[w].messages = telegram[w].messages]_vars


\* ---------------------------------------------------------------------
\* the ladder in ascending duration, and each rung's duration in minutes
AscendingLadder ==
  <<"1m", "3m", "5m", "15m", "30m", "1h", "2h", "4h", "6h", "8h", "12h", "1d",
    "3d">>

Minutes(interval) ==
  CASE interval = "1m" -> 1 [] interval = "3m" -> 3 [] interval = "5m" -> 5
    [] interval = "15m" -> 15 [] interval = "30m" -> 30 [] interval = "1h" -> 60
    [] interval = "2h" -> 120 [] interval = "4h" -> 240 [] interval = "6h" -> 360
    [] interval = "8h" -> 480 [] interval = "12h" -> 720
    [] interval = "1d" -> 1440 [] interval = "3d" -> 4320

\* the worker is past initialize_lower_interval_trading, which did not raise
PastLowerIntervalSetup(w) ==
  /\ pc[w] \notin {"idle", "create_trader", "initialize_lower_interval_trading"}
  /\ errorAt[w] \notin {"create_trader", "initialize_lower_interval_trading"}

\* C15: with lower-interval trading enabled, for every primary interval other
\* than 1m the secondary feed uses the interval one step below the primary on
\* the ladder 1m,3m,5m,15m,30m,1h,2h,4h,6h,8h,12h,1d,3d, which is strictly
\* shorter than the primary; for 1m no secondary feed is created.
C15_OneStepBelow ==
  \A w \in Workers :
    PastLowerIntervalSetup(w) /\ configuration.lowerIntervalCheck =>
      LET primary == configuration.interval
          feed == get_lower_interval_data(gui, caller[w])
      IN IF primary = "1m"
           THEN feed = NoData
           ELSE /\ feed = AscendingLadder[IndexOf(AscendingLadder, primary) - 1]
                /\ Minutes(feed) < Minutes(primary)


\* ---------------------------------------------------------------------
\* the environment has cleared the flag of w's mode while w was in its loop,
\* and w still has a statement to run
StoppedInLoop(w) ==
  /\ stopAt[w].pc # "none"
  /\ ~Flag(gui, caller[w])
  /\ pc[w] \in LoopSteps \cup {"while"}
  /\ (pc[w] = "while" /\ runningLoop[w]) => iteration[w] < environment.iterations

\* the updated events w had emitted when the flag was cleared
UpdatedAtStop(w) ==
  IF stopAt[w].pc \in LoopSteps THEN stopAt[w].iteration - 1 ELSE stopAt[w].iteration

\* C16: once the environment has cleared the worker's running flag, which
\* then stays false, and the collaborator calls return, the worker eventually
\* leaves the loop and its run ends, and from the clearing on it emits at most
\* one more updated event.
C16_StopIsLiveAndBounded ==
  /\ [](\A w \in Workers :
          stopAt[w].pc # "none" =>
            /\ ~Flag(gui, caller[w])
            /\ Count(events[w], "updated") <= UpdatedAtStop(w) + 1)
  /\ \A w \in Workers : StoppedInLoop(w) ~> pc[w] = "done"

\* a LIVE worker whose flag was cleared at the test that starts iteration 2,
\* after the flag had been read as set, has run iteration 2 and left
C16_Witness ==
  \E w \in Workers :
    /\ caller[w] = LIVE
    /\ stopAt[w] = [pc |-> "while", iteration |-> 1]
    /\ pc[w] = "done"
    /\ errorAt[w] = "none"
    /\ Kinds(events[w]) = <<"started", "updated", "updated">>


\* ---------------------------------------------------------------------
\* C17: a run that ends by clean stop (the loop test finds the flag read as
\* false, no exception) emits no terminal event: its trace holds neither
\* finished nor error and ends with the updated of its last iteration, or with
\* started when no iteration ran; a run that emitted error holds no finished.
C17_CleanStopIsSilent ==
  \A w \in Workers :
    /\ (pc[w] = "done" /\ errorAt[w] = "none") =>
         /\ ~runningLoop[w]
         /\ Count(events[w], "finished") = 0
         /\ Count(events[w], "error") = 0
         /\ Count(events[w], "started") = 1
         /\ Count(events[w], "updated") = iteration[w]
         /\ Last(events[w]).kind = IF iteration[w] = 0 THEN "started" ELSE "updated"
    /\ Count(events[w], "error") > 0 => Count(events[w], "finished") = 0

\* a worker stopped between setup and the first flag read has ended its run
\* with started as its only event
C17_Witness ==
  \E w \in Workers :
    /\ pc[w] = "done"
    /\ errorAt[w] = "none"
    /\ stopAt[w].pc \in {"started", "trading_loop"}
    /\ Kinds(events[w]) = <<"started">>


\* ---------------------------------------------------------------------
\* C18: previousLowerTrend is none until the first trend-cross check, is
\* changed only by the step in which handle_lower_interval_cross returns, and
\* after that return equals the lower trend the check observed, whichever
\* branch it took; so a check that notifies has observed a trend different
\* from the one observed by the check before it, and two consecutive checks
\* that observe the same trend do not both notify.
C18_PreviousTracksObserved ==
  /\ [](\A w \in Workers :
          /\ iteration[w] = 0 => lowerTrend[w] = NoTrend /\ observed[w] = NoTrend
          /\ pc[w] \in LoopSteps \cup {"while"} => lowerTrend[w] = observed[w])
  /\ [][\A w \in Workers :
          /\ lowerTrend'[w] # lowerTrend[w] =>
               Returns(w, "handle_lower_interval_cross", "get_statistics")
          /\ observed'[w] # observed[w] =>
               pc[w] = "handle_lower_interval_cross" /\ pc'[w] # pc[w]
          /\ Returns(w, "handle_lower_interval_cross", "get_statistics") =>
               lowerTrend'[w] = observed'[w]
          /\ (pc[w] = "handle_lower_interval_cross" /\ activity'[w] # activity[w]) =>
               observed'[w] # observed[w]]_vars

\* the first check observed a lower trend equal to the primary trend: it stayed
\* silent, and the previous lower trend is now that trend
C18_Witness ==
  \E w \in Workers :
    /\ pc[w] = "get_statistics"
    /\ iteration[w] = 1
    /\ observed[w] = BULLISH
    /\ lowerTrend[w] = BULLISH
    /\ get_trader(gui, caller[w]).trend = BULLISH
    /\ activity[w].last # TrendMessage(BULLISH)


\* ---------------------------------------------------------------------
\* C19: only a LIVE worker with the periodic-statistics toggle checked arms
\* the scheduler: for a SIMULATION worker, whatever the toggles, and for a LIVE
\* worker with the toggle unchecked, the deadline is None in every state of
\* the run, no periodic statistics are sent, and loop entry sends no
\* 'Initiated periodic statistics notification.' message.
C19_OnlyLiveToggleArms ==
  /\ [](\A w \in Workers :
          ~(caller[w] = LIVE /\ configuration.schedulingStatisticsCheckBox) =>
            /\ nextScheduledEvent[w] = None
            /\ scheduleSeconds[w] = None
            /\ telegram[w].statistics = 0
            /\ errorAt[w] \notin {"initialize_scheduler", "trading_loop",
                                  "handle_scheduler"})
  /\ [][\A w \in Workers :
          (/\ ~(caller[w] = LIVE /\ configuration.schedulingStatisticsCheckBox)
           /\ pc[w] \in {"trading_loop", "handle_scheduler"}) =>
            telegram'[w] = telegram[w]]_vars

\* a SIMULATION worker with the toggle checked has passed a scheduler check
\* made later than the deadline a LIVE worker would have had, and sent nothing
C19_Witness ==
  \E w \in Workers :
    /\ caller[w] = SIMULATION
    /\ configuration.schedulingStatisticsCheckBox
    /\ configuration.schedulingIntervalComboBox = "Minutes"
    /\ pc[w] = "handle_lower_interval_cross"
    /\ checkTime[w] > StartTime + 60 * configuration.schedulingTimeUnit
    /\ nextScheduledEvent[w] = None
    /\ telegram[w] = [messages |-> 0, statistics |-> 0]


\* ---------------------------------------------------------------------
\* the worker's setup_bot has returned
SetupDone(w) ==
  /\ pc[w] \notin SetupSteps \cup {"idle"}
  /\ errorAt[w] \notin SetupSteps

\* C20: whenever the worker hands something to the notification integration
\* an instance exists and has been started: once setup has returned, scheduler
\* armed or telegram notification enabled implies gui.telegramBot is a started
\* bot, for every combination of the telegram-trading, periodic-statistics and
\* telegram-notification toggles, and no hand-over finds the bot missing.
C20_BotStartedWhenNeeded ==
  \A w \in Workers :
    /\ (/\ SetupDone(w)
        /\ nextScheduledEvent[w] # None \/ configuration.enableTelegramNotification) =>
         gui.telegramBot = "started"
    /\ telegram[w].messages + telegram[w].statistics > 0 => gui.telegramBot = "started"
    /\ errorAt[w] \in {"trading_loop", "handle_scheduler", "handle_lower_interval_cross"} =>
         Last(events[w]).msg # "AttributeError"

====
